---- MODULE Spec2Model ----
(***************************************************************************)
(* A model of the CadApp viewer's SceneManager (appController.js) and its  *)
(* AxesActor widget: the animated model rotation, the render loop, the     *)
(* pointer-driven pan and orbit handlers, the visual-style state, model    *)
(* loading and the File > Open helper.                                     *)
(*                                                                         *)
(* Arithmetic is exact.  An orientation (THREE.Quaternion) is modelled by  *)
(* the rotation it represents: a 3x3 integer matrix for the 24 axis-aligned*)
(* orientations, and a term (slerp, lookAt, ...) for every other value.    *)
(* A THREE.Vector3 is a sum p1 + p2/sqrt(2) + p3/sqrt(3) of three integer  *)
(* triples, in thousandths of a world unit.                                *)
(***************************************************************************)
EXTENDS Integers, Sequences, FiniteSets, TLC

VARIABLES
    quaternion,            \* artifactGroup.quaternion
    rotationAnimating,     \* this._rotationAnimating
    rotationCancelToken,   \* this._rotationCancelToken
    rafQueue,              \* callbacks registered with requestAnimationFrame
    frameRun,              \* callbacks of the running frame still to be run
    now,                   \* performance.now() / the frame timestamp
    callLog,               \* the rotateModelByDegrees calls made so far
    axesQuat,              \* axesActor.axesGroup.quaternion
    axesCam,               \* axesActor.camera: its position direction and up
    camPos,                \* camera.position
    camUp,                 \* camera.up
    camQuat,               \* camera.quaternion
    target,                \* controls.target
    pan,                   \* closure state of _setupQuaternionRotation
    orbit,                 \* closure state of _setupCameraQuaternionOrbit
    event,                 \* the pointer event being dispatched
    pending,               \* its listeners still to be run
    evTime,                \* timeStamp of the latest pointer event
    evCount,               \* pointer events dispatched so far
    frustumSize,           \* this.frustumSize
    sm,                    \* the model mesh, its materials and edge overlay
    reads,                 \* the FileReader loads in progress, with their files
    started,               \* files chosen so far
    log,                   \* the last window.logMessage text
    styleCalls,            \* the style of the latest setVisualStyle call, if any
    win,                   \* window.currentModelName and the text of #tree-title
    dialog,                \* the file dialog opened by window.openModel is showing
    timers,                \* setTimeout callbacks of helpers.openModel not yet run
    treeUpdates,           \* the arguments window.updateTree was called with
    helperLoaded           \* a file chosen in the helper's dialog has been loaded

rotVars == <<quaternion, rotationAnimating, rotationCancelToken, rafQueue,
             frameRun, now, callLog>>
axesVars == <<axesQuat, axesCam>>
camVars == <<camPos, camUp, camQuat, target, frustumSize>>
ptrVars == <<pan, orbit, event, pending, evTime, evCount>>
openVars == <<dialog, timers, treeUpdates, helperLoaded>>
uiVars == <<styleCalls, win, openVars>>
styleVars == <<sm, reads, started, log, uiVars>>
vars == <<rotVars, axesVars, camVars, ptrVars, styleVars>>

----------------------------------------------------------------------------
(* Bounds of the model *)

\* rotateModelByDegrees calls in one behaviour
MaxCalls == 2
\* largest time (in ticks) between two animation frames
MaxFrameDelta == 2

\* Thousandths of a world unit
Milli == 10 * 100

----------------------------------------------------------------------------
(* Integer vectors and matrices *)

Zero3 == <<0, 0, 0>>

Neg3(a) == <<-a[1], -a[2], -a[3]>>

Add3(a, b) == <<a[1] + b[1], a[2] + b[2], a[3] + b[3]>>

Scale3(a, s) == <<a[1] * s, a[2] * s, a[3] * s>>

Dot3(a, b) == a[1] * b[1] + a[2] * b[2] + a[3] * b[3]

\* THREE.Vector3.crossVectors
Cross3(a, b) == <<a[2] * b[3] - a[3] * b[2],
                  a[3] * b[1] - a[1] * b[3],
                  a[1] * b[2] - a[2] * b[1]>>

Norm2(a) == Dot3(a, a)

Abs(n) == IF n < 0 THEN -n ELSE n

Sign(n) == IF n < 0 THEN -1 ELSE IF n > 0 THEN 1 ELSE 0

\* Matrices are 9-tuples, row by row
MatI == <<1, 0, 0, 0, 1, 0, 0, 0, 1>>

MatAt(m, i, j) == m[(i - 1) * 3 + j]

MatMulAt(a, b, i, j) ==
    MatAt(a, i, 1) * MatAt(b, 1, j) + MatAt(a, i, 2) * MatAt(b, 2, j)
    + MatAt(a, i, 3) * MatAt(b, 3, j)

MatMul(a, b) ==
    <<MatMulAt(a, b, 1, 1), MatMulAt(a, b, 1, 2), MatMulAt(a, b, 1, 3),
      MatMulAt(a, b, 2, 1), MatMulAt(a, b, 2, 2), MatMulAt(a, b, 2, 3),
      MatMulAt(a, b, 3, 1), MatMulAt(a, b, 3, 2), MatMulAt(a, b, 3, 3)>>

MatVec(m, v) == <<Dot3(<<m[1], m[2], m[3]>>, v),
                  Dot3(<<m[4], m[5], m[6]>>, v),
                  Dot3(<<m[7], m[8], m[9]>>, v)>>

MatTranspose(m) == <<m[1], m[4], m[7], m[2], m[5], m[8], m[3], m[6], m[9]>>

\* cos and sin of k quarter turns
Cos4(k) == <<1, 0, -1, 0>>[(k % 4) + 1]

Sin4(k) == <<0, 1, 0, -1>>[(k % 4) + 1]

\* The rotation by k quarter turns about the direction n (Rodrigues' formula,
\* which is the rotation of the quaternion (n sin(a/2), cos(a/2))).  It is an
\* integer matrix when n is a coordinate axis, or a face diagonal and k even.
AxisAngleAt(n, k, i, j) ==
    LET c == Cos4(k)
        s == Sin4(k)
        m == Norm2(n)
        K == <<0, -n[3], n[2], n[3], 0, -n[1], -n[2], n[1], 0>>
    IN  (IF i = j THEN c ELSE 0) + s * MatAt(K, i, j)
        + (IF m = 0 THEN 0 ELSE ((1 - c) * n[i] * n[j]) \div m)

AxisAngleMat(n, k) ==
    <<AxisAngleAt(n, k, 1, 1), AxisAngleAt(n, k, 1, 2), AxisAngleAt(n, k, 1, 3),
      AxisAngleAt(n, k, 2, 1), AxisAngleAt(n, k, 2, 2), AxisAngleAt(n, k, 2, 3),
      AxisAngleAt(n, k, 3, 1), AxisAngleAt(n, k, 3, 2), AxisAngleAt(n, k, 3, 3)>>

ExactAxisAngle(n, k) ==
    \/ k % 4 = 0
    \/ Norm2(n) = 1
    \/ Norm2(n) = 2 /\ k % 2 = 0

----------------------------------------------------------------------------
(* Orientations: THREE.Quaternion *)

QExact(m) == [tag |-> "exact", m |-> m, qs |-> <<>>, ns |-> <<>>]

QIdentity == QExact(MatI)

IsExact(q) == q.tag = "exact"

\* a.multiply(b): a * b
QMul(a, b) ==
    IF IsExact(a) /\ IsExact(b)
    THEN QExact(MatMul(a.m, b.m))
    ELSE [tag |-> "mul", m |-> <<>>, qs |-> <<a, b>>, ns |-> <<>>]

\* q.invert()
QInvert(q) ==
    IF IsExact(q)
    THEN QExact(MatTranspose(q.m))
    ELSE [tag |-> "invert", m |-> <<>>, qs |-> <<q>>, ns |-> <<>>]

\* An axis: the integer vector v, turned by the orientations in by
Axis(v) == [v |-> v, by |-> <<>>]

\* axis.applyQuaternion(q)
ApplyQuaternion(ax, q) ==
    IF IsExact(q) /\ ax.by = <<>>
    THEN [v |-> MatVec(q.m, ax.v), by |-> <<>>]
    ELSE [v |-> ax.v, by |-> ax.by \o <<q>>]

\* new THREE.Quaternion().setFromAxisAngle(axis, k quarter turns)
SetFromAxisAngle(ax, k) ==
    IF ax.by = <<>> /\ ExactAxisAngle(ax.v, k)
    THEN QExact(AxisAngleMat(ax.v, k))
    ELSE [tag |-> "axisAngle", m |-> <<>>, qs |-> ax.by, ns |-> ax.v \o <<k % 4>>]

\* THREE.Quaternion.slerp(a, b, out, t) with t = num / den
Slerp(a, b, num, den) ==
    IF num = 0 \/ a = b THEN a
    ELSE IF num = den THEN b
    ELSE [tag |-> "slerp", m |-> <<>>, qs |-> <<a, b>>, ns |-> <<num, den>>]

----------------------------------------------------------------------------
(* Positions: THREE.Vector3 *)

\* The vector p1 + p2/sqrt(2) + p3/sqrt(3)
Vec(p1, p2, p3) == [p1 |-> p1, p2 |-> p2, p3 |-> p3]

VZero == Vec(Zero3, Zero3, Zero3)

VAdd(a, b) == Vec(Add3(a.p1, b.p1), Add3(a.p2, b.p2), Add3(a.p3, b.p3))

VSub(a, b) == VAdd(a, Vec(Neg3(b.p1), Neg3(b.p2), Neg3(b.p3)))

\* v.applyQuaternion(q) for an axis-aligned orientation with matrix m
VRot(m, v) == Vec(MatVec(m, v.p1), MatVec(m, v.p2), MatVec(m, v.p3))

RECURSIVE Gcd(_, _)
Gcd(a, b) == IF b = 0 THEN a ELSE Gcd(b, a % b)

\* F applied to the value of e, with e worked out once
With(e, F(_)) == CHOOSE r \in {F(x) : x \in {e}} : TRUE

\* The shortest integer vector along t
Primitive(t) ==
    With(t, LAMBDA u :
        With(Gcd(Gcd(Abs(u[1]), Abs(u[2])), Abs(u[3])), LAMBDA g :
            IF g = 0 THEN Zero3 ELSE <<u[1] \div g, u[2] \div g, u[3] \div g>>))

\* n.normalize().multiplyScalar(s), for a direction n of squared length 1, 2, 3
UnitTimes(n, s) ==
    With(n, LAMBDA u :
        CASE Norm2(u) = 0 -> VZero
          [] Norm2(u) = 1 -> Vec(Scale3(u, s), Zero3, Zero3)
          [] Norm2(u) = 2 -> Vec(Zero3, Scale3(u, s), Zero3)
          [] Norm2(u) = 3 -> Vec(Zero3, Zero3, Scale3(u, s)))

\* The direction of v.normalize(); the offsets and axes of the program all
\* lie in one part (a mixed sum has no integer direction and is given none)
DirOf(v) ==
    With(v, LAMBDA w :
        CASE w.p2 = Zero3 /\ w.p3 = Zero3 -> Primitive(w.p1)
          [] w.p1 = Zero3 /\ w.p3 = Zero3 -> Primitive(w.p2)
          [] w.p1 = Zero3 /\ w.p2 = Zero3 -> Primitive(w.p3)
          [] OTHER -> Zero3)

\* camera.lookAt(tgt) from eye with the given up, as Matrix4.lookAt builds it:
\* z = eye - tgt, x = up x z, y = z x x, normalised, are the columns
LookAt(eye, tgt, up) ==
    LET z == DirOf(VSub(eye, tgt))
        x == Primitive(Cross3(up, z))
        y == Cross3(z, x)
    IN  IF Norm2(z) = 1 /\ Norm2(x) = 1
        THEN QExact(<<x[1], y[1], z[1], x[2], y[2], z[2], x[3], y[3], z[3]>>)
        ELSE [tag |-> "lookAt", m |-> <<>>, qs |-> <<>>, ns |-> z \o up]

\* camera.getWorldQuaternion(): the camera has no parent, so this is
\* camera.quaternion, which camera.lookAt and controls.update() write
QCamera == camQuat

----------------------------------------------------------------------------
(* setPresetView *)

PresetDist == 10

PresetIds == {"isometric", "front", "back", "left", "right"}

PresetDir(id) ==
    CASE id = "isometric" -> <<1, 1, 1>>
      [] id = "front" -> <<0, 0, 1>>
      [] id = "back" -> <<0, 0, -1>>
      [] id = "left" -> <<-1, 0, 0>>
      [] id = "right" -> <<1, 0, 0>>
      [] id = "top" -> <<0, 1, 0>>
      [] id = "bottom" -> <<0, -1, 0>>

\* SceneManager.setPresetView(id) with no object: the centre is
\* controls.target
SetPresetView(id) ==
    /\ frameRun = <<>>
    /\ pending = <<>>
    /\ LET center == target
           pos == UnitTimes(PresetDir(id), PresetDist * Milli)
       IN  /\ camPos' = VAdd(center, pos)
           /\ camUp' = <<0, 1, 0>>
           /\ camQuat' = LookAt(VAdd(center, pos), center, <<0, 1, 0>>)
           /\ target' = center
    /\ frustumSize' = frustumSize
    /\ UNCHANGED <<rotVars, axesVars, ptrVars, styleVars>>

----------------------------------------------------------------------------
(* rotateModelByDegrees *)

Degrees == {90, 180}

AxisNames == {"x", "y", "z"}

Spaces == {"world", "local"}

\* animation durations, in ticks; 0 is the immediate path
Durations == {0, 2, 3}

QuarterTurns(degrees) == (degrees \div 90) % 4

AxisLocal(axis) ==
    CASE axis = "x" -> Axis(<<1, 0, 0>>)
      [] axis = "z" -> Axis(<<0, 0, 1>>)
      [] OTHER -> Axis(<<0, 1, 0>>)

AxisWorld(q, axis, space) ==
    IF space = "local"
    THEN ApplyQuaternion(AxisLocal(axis), q)
    ELSE AxisLocal(axis)

\* the duration <= 0 path: quaternion.multiply / quaternion.premultiply
ImmediateRotate(q, rotQ, space) ==
    IF space = "local" THEN QMul(q, rotQ) ELSE QMul(rotQ, q)

\* the animated path's endQ
EndQ(startQ, rotQForEnd, space) ==
    IF space = "local" THEN QMul(startQ, rotQForEnd) ELSE QMul(rotQForEnd, startQ)

\* "Cancel any in-progress rotation": the token as the three assignments
\* leave it
CancelInProgress(animating, token) ==
    LET t1 == IF animating THEN TRUE ELSE token
        t2 == FALSE
    IN  t2

StepCallback(id, startQ, endQ, startTime, duration) ==
    [kind |-> "step", id |-> id, startQ |-> startQ, endQ |-> endQ,
     startTime |-> startTime, duration |-> duration]

AnimateCallback ==
    [kind |-> "animate", id |-> 0, startQ |-> QIdentity, endQ |-> QIdentity,
     startTime |-> 0, duration |-> 0]

CallRecord(id, degrees, axis, space, duration, startQ, endQ) ==
    [id |-> id, degrees |-> degrees, axis |-> axis, space |-> space,
     duration |-> duration, startQ |-> startQ, endQ |-> endQ]

RotateModelByDegrees(degrees, axis, duration, space) ==
    /\ frameRun = <<>>
    /\ Len(callLog) < MaxCalls
    /\ LET id == Len(callLog) + 1
           rotQ == SetFromAxisAngle(AxisWorld(quaternion, axis, space),
                                    QuarterTurns(degrees))
       IN  IF duration <= 0
           THEN /\ quaternion' = ImmediateRotate(quaternion, rotQ, space)
                /\ rotationAnimating' = FALSE
                /\ rotationCancelToken' =
                       CancelInProgress(rotationAnimating, rotationCancelToken)
                /\ callLog' = Append(callLog,
                       CallRecord(id, degrees, axis, space, duration, quaternion,
                                  ImmediateRotate(quaternion, rotQ, space)))
                /\ UNCHANGED rafQueue
           ELSE /\ rotationAnimating' = TRUE
                /\ rotationCancelToken' =
                       CancelInProgress(rotationAnimating, rotationCancelToken)
                /\ rafQueue' = Append(rafQueue,
                       StepCallback(id, quaternion, EndQ(quaternion, rotQ, space),
                                    now, duration))
                /\ callLog' = Append(callLog,
                       CallRecord(id, degrees, axis, space, duration, quaternion,
                                  EndQ(quaternion, rotQ, space)))
                /\ UNCHANGED quaternion
    /\ UNCHANGED <<frameRun, now, axesVars, camVars, ptrVars, styleVars>>

\* t = Math.min(1, elapsed / duration), eased, as num / den with den =
\* duration^2
EasedNum(elapsed, duration) ==
    LET e == IF elapsed > duration THEN duration ELSE elapsed
    IN  IF 2 * e < duration
        THEN 2 * e * e
        ELSE 4 * e * duration - 2 * e * e - duration * duration

\* a plausible slip: the snap restores the start orientation
FinalQuaternionStart(cb) == cb.startQ

\* "Snap to exact final quaternion"
FinalQuaternion(cb) == cb.endQ

StepPending ==
    \E i \in DOMAIN rafQueue : rafQueue[i].kind = "step"

\* The browser starts an animation frame: the callbacks registered so far run,
\* in order, with the frame's timestamp.  Only now - startTime is ever read,
\* so time stands still while no animation is pending.
BeginFrame(delta) ==
    /\ frameRun = <<>>
    /\ rafQueue # <<>>
    /\ frameRun' = rafQueue
    /\ rafQueue' = <<>>
    /\ now' = IF StepPending THEN now + delta ELSE now
    /\ UNCHANGED <<quaternion, rotationAnimating, rotationCancelToken, callLog,
                   axesVars, camVars, ptrVars, styleVars>>

\* function step(now) of rotateModelByDegrees
RunStep ==
    /\ frameRun # <<>>
    /\ Head(frameRun).kind = "step"
    /\ LET cb == Head(frameRun)
           elapsed == now - cb.startTime
       IN  IF rotationCancelToken
           THEN /\ rotationAnimating' = FALSE
                /\ rotationCancelToken' = FALSE
                /\ UNCHANGED <<quaternion, rafQueue>>
           ELSE IF elapsed < cb.duration
           THEN /\ quaternion' = Slerp(cb.startQ, cb.endQ,
                                       EasedNum(elapsed, cb.duration),
                                       cb.duration * cb.duration)
                /\ rafQueue' = Append(rafQueue, cb)
                /\ UNCHANGED <<rotationAnimating, rotationCancelToken>>
           ELSE /\ quaternion' = FinalQuaternion(cb)
                /\ rotationAnimating' = FALSE
                /\ UNCHANGED <<rotationCancelToken, rafQueue>>
    /\ frameRun' = Tail(frameRun)
    /\ UNCHANGED <<now, callLog, axesVars, camVars, ptrVars, styleVars>>

----------------------------------------------------------------------------
(* The render loop and the axes widget *)

\* AxesActor.syncWithCamera(camera, tgt): the new axesGroup.quaternion and
\* axes camera.  tgt is an Object3D (with a world quaternion) or a Vector3.
SyncWithCamera(qCam, cameraPosition, cameraUp, tgt) ==
    IF tgt.isObject3D
    THEN [axesQuat |-> QMul(QInvert(qCam), tgt.quat),
          axesCam |-> [position |-> Vec(<<2 * Milli, 2 * Milli, 2 * Milli>>, Zero3, Zero3),
                       up |-> cameraUp]]
    ELSE [axesQuat |-> QIdentity,
          axesCam |-> [position |-> UnitTimes(DirOf(VSub(cameraPosition, tgt.vec)),
                                              3 * Milli),
                       up |-> cameraUp]]

\* The Vector3 animate() hands to syncWithCamera
ControlsTarget == [isObject3D |-> FALSE, vec |-> target, quat |-> QIdentity]

\* const animate = () => { requestAnimationFrame(animate); ... }
RunAnimate ==
    /\ frameRun # <<>>
    /\ Head(frameRun).kind = "animate"
    /\ frameRun' = Tail(frameRun)
    /\ rafQueue' = Append(rafQueue, AnimateCallback)
    /\ LET synced == SyncWithCamera(QCamera, camPos, camUp, ControlsTarget)
       IN  /\ axesQuat' = synced.axesQuat
           /\ axesCam' = synced.axesCam
    /\ UNCHANGED <<quaternion, rotationAnimating, rotationCancelToken, now,
                   callLog, camVars, ptrVars, styleVars>>

----------------------------------------------------------------------------
(* Pointer events and the two drag handlers *)

\* pointer events in one behaviour
MaxEvents == 3

\* null, for activePointerId and lastPointerTime
Null == 0

PointerIds == {1, 2}
\* MouseEvent.button: 0 left, 1 middle, 2 right
Buttons == {0, 1, 2}
\* ev.clientX, ev.clientY, in pixels
ClientXs == {0, 300}
ClientYs == {0, 600}
\* where a drag begins; only the movement from there is used
DownXs == {300}
DownYs == {0}
\* milliseconds between two pointer events
Gaps == {10}
\* canvas.getBoundingClientRect(): width and height in pixels
RectW == 10 * 100
RectH == 10 * 100


\* pan and orbit multipliers, in hundredths
PanBase == 65
PanGain == 25
PanMinMult == 35
PanMaxMult == 160
OrbitGain == 100
OrbitMinMult == 30
OrbitMaxMult == 300

Min(a, b) == IF a < b THEN a ELSE b
Max(a, b) == IF a > b THEN a ELSE b

\* Math.sqrt, rounded down
RECURSIVE SqrtBetween(_, _, _)
SqrtBetween(n, lo, hi) ==
    IF lo = hi THEN lo
    ELSE LET mid == (lo + hi + 1) \div 2
         IN  IF mid * mid <= n THEN SqrtBetween(n, mid, hi)
             ELSE SqrtBetween(n, lo, mid - 1)

Sqrt(n) == SqrtBetween(n, 0, n)

\* Math.min(maxMult, Math.max(minMult, base + speed * gain)) in hundredths,
\* with speed = Math.sqrt(dx * dx + dy * dy) / dt; the comparison with maxMult
\* is made on the squares, so the result is exact whenever it is maxMult or
\* the distance moved has an integer square root that dt * 100 divides
SpeedMult(base, gain, minMult, maxMult, dx, dy, dt) ==
    LET d2 == dx * dx + dy * dy
        reach == (maxMult - base) * dt
    IN  IF d2 >= (reach * reach + gain * gain - 1) \div (gain * gain)
        THEN maxMult
        ELSE Max(minMult, base + (gain * Sqrt(d2)) \div dt)

NoEvent ==
    [type |-> "none", pointerId |-> Null, button |-> 0, shiftKey |-> FALSE,
     ctrlKey |-> FALSE, altKey |-> FALSE, clientX |-> 0, clientY |-> 0,
     timeStamp |-> 0]

\* The listeners of an event type, in the order init() registers them:
\* _setupQuaternionRotation() before _setupCameraQuaternionOrbit()
Listeners == <<"pan", "orbit">>

\* The browser dispatching one pointer event to the canvas / the window
Dispatch(ev, gap) ==
    /\ pending = <<>>
    /\ frameRun = <<>>
    /\ evCount < MaxEvents
    /\ event' = [ev EXCEPT !.timeStamp = evTime + gap]
    /\ pending' = Listeners
    /\ evTime' = evTime + gap
    /\ evCount' = evCount + 1
    /\ UNCHANGED <<rotVars, axesVars, camVars, pan, orbit, styleVars>>

PointerDown(pointerId, button, shiftKey, ctrlKey, altKey, clientX, clientY) ==
    [type |-> "pointerdown", pointerId |-> pointerId, button |-> button,
     shiftKey |-> shiftKey, ctrlKey |-> ctrlKey, altKey |-> altKey,
     clientX |-> clientX, clientY |-> clientY, timeStamp |-> 0]

PointerMove(pointerId, clientX, clientY) ==
    [NoEvent EXCEPT !.type = "pointermove", !.pointerId = pointerId,
                    !.clientX = clientX, !.clientY = clientY]

PointerUp(pointerId, button) ==
    [NoEvent EXCEPT !.type = "pointerup", !.pointerId = pointerId,
                    !.button = button]

PointerCancel(pointerId) ==
    [NoEvent EXCEPT !.type = "pointercancel", !.pointerId = pointerId]

\* The listener that runs next
Running(handler, type) ==
    /\ pending # <<>>
    /\ Head(pending) = handler
    /\ event.type = type

\* The listener returns
Return ==
    /\ pending' = Tail(pending)
    /\ event' = IF Tail(pending) = <<>> THEN NoEvent ELSE event
    /\ UNCHANGED <<evTime, evCount>>

\* controls.enableRotate: init() sets it to false and nothing sets it again
EnableRotate == FALSE

\* rotating = true; lastX = ...; activePointerId = ...; lastPointerTime = ...
StartDrag(h, ev) ==
    [h EXCEPT !.rotating = TRUE, !.lastX = ev.clientX, !.lastY = ev.clientY,
              !.activePointerId = ev.pointerId, !.lastPointerTime = ev.timeStamp]

\* onPointerDown of _setupQuaternionRotation
PanDownStarts(ev) == ev.button = 1 /\ ev.shiftKey /\ ~EnableRotate

PanOnPointerDown ==
    /\ Running("pan", "pointerdown")
    /\ pan' = IF PanDownStarts(event)
              THEN [StartDrag(pan, event) EXCEPT !.mode = "pan"]
              ELSE pan
    /\ Return
    /\ UNCHANGED <<rotVars, axesVars, camVars, orbit, styleVars>>

\* onPointerDown of _setupCameraQuaternionOrbit without its shiftKey test
OrbitDownIgnoresShift(ev) == ev.button = 1 /\ ~ev.ctrlKey /\ ~ev.altKey

\* onPointerDown of _setupCameraQuaternionOrbit; the listener is on the
\* canvas, so ev.target is the canvas
OrbitDownStarts(ev) == ev.button = 1 /\ ~ev.shiftKey /\ ~ev.ctrlKey /\ ~ev.altKey

OrbitOnPointerDown ==
    /\ Running("orbit", "pointerdown")
    /\ orbit' = IF OrbitDownStarts(event) THEN StartDrag(orbit, event) ELSE orbit
    /\ Return
    /\ UNCHANGED <<rotVars, axesVars, camVars, pan, styleVars>>

\* onPointerUp without the reset of activePointerId
OnPointerUpKeepsPointer(h, ev) ==
    IF ev.button # 1 THEN h
    ELSE IF h.activePointerId # Null /\ ev.pointerId # h.activePointerId THEN h
    ELSE [h EXCEPT !.rotating = FALSE]

\* onPointerUp, the same code in both handlers
OnPointerUp(h, ev) ==
    IF ev.button # 1 THEN h
    ELSE IF h.activePointerId # Null /\ ev.pointerId # h.activePointerId THEN h
    ELSE [h EXCEPT !.rotating = FALSE, !.activePointerId = Null]

\* onPointerCancel, the same code in both handlers
OnPointerCancel(h, ev) ==
    IF h.activePointerId # Null /\ ev.pointerId = h.activePointerId
    THEN [h EXCEPT !.rotating = FALSE, !.activePointerId = Null]
    ELSE h

PanOnPointerUp ==
    /\ Running("pan", "pointerup")
    /\ pan' = OnPointerUp(pan, event)
    /\ Return
    /\ UNCHANGED <<rotVars, axesVars, camVars, orbit, styleVars>>

PanOnPointerCancel ==
    /\ Running("pan", "pointercancel")
    /\ pan' = OnPointerCancel(pan, event)
    /\ Return
    /\ UNCHANGED <<rotVars, axesVars, camVars, orbit, styleVars>>

OrbitOnPointerUp ==
    /\ Running("orbit", "pointerup")
    /\ orbit' = OnPointerUp(orbit, event)
    /\ Return
    /\ UNCHANGED <<rotVars, axesVars, camVars, pan, styleVars>>

OrbitOnPointerCancel ==
    /\ Running("orbit", "pointercancel")
    /\ orbit' = OnPointerCancel(orbit, event)
    /\ Return
    /\ UNCHANGED <<rotVars, axesVars, camVars, pan, styleVars>>

\* onPointerMove goes on past its first two tests
MoveHandled(h, ev) ==
    /\ h.rotating
    /\ ~(h.activePointerId # Null /\ ev.pointerId # h.activePointerId)

\* dx, dy, dt of onPointerMove
MoveDelta(h, ev) ==
    [dx |-> ev.clientX - h.lastX,
     dy |-> ev.clientY - h.lastY,
     dt |-> Max(1, IF h.lastPointerTime # Null
                   THEN ev.timeStamp - h.lastPointerTime ELSE 16)]

\* lastPointerTime = now; lastX = ev.clientX; lastY = ev.clientY
TrackPointer(h, ev) ==
    [h EXCEPT !.lastX = ev.clientX, !.lastY = ev.clientY,
              !.lastPointerTime = ev.timeStamp]

\* camera.getWorldDirection(): the direction the camera looks in, -z of its
\* orientation, as an integer direction
WorldDirection(q) ==
    IF IsExact(q) THEN <<-q.m[3], -q.m[6], -q.m[9]>>
    ELSE <<-q.ns[1], -q.ns[2], -q.ns[3]>>

\* getCameraRight: crossVectors(camera.up, forward).normalize()
CameraRight(up, q) == Primitive(Cross3(up, WorldDirection(q)))

\* panOffset.copy(right).multiplyScalar(moveX).addScaledVector(up, moveY)
PanOffset(d, up, q, frustum) ==
    LET worldPerPixelY == frustum \div RectH
        worldPerPixelX == (frustum * RectW) \div (RectH * RectW)
        panMult == SpeedMult(PanBase, PanGain, PanMinMult, PanMaxMult,
                             d.dx, d.dy, d.dt)
        moveX == (d.dx * worldPerPixelX * panMult) \div 100
        moveY == (d.dy * worldPerPixelY * panMult) \div 100
    IN  VAdd(UnitTimes(CameraRight(up, q), moveX),
             UnitTimes(Primitive(up), moveY))

\* the pan branch without controls.target.add(panOffset)
PanTargetStays(tgt, panOffset) == tgt

\* controls.target.add(panOffset)
PanTarget(tgt, panOffset) == VAdd(tgt, panOffset)

\* The rotation the 'rotate' branch of onPointerMove applies to the model
DragRotation(d) ==
    [tag |-> "drag", m |-> <<>>, qs |-> <<>>, ns |-> <<d.dx, d.dy, d.dt>>]

\* onPointerMove of _setupQuaternionRotation
PanOnPointerMove ==
    /\ Running("pan", "pointermove")
    /\ Return
    /\ IF ~MoveHandled(pan, event)
       THEN UNCHANGED <<quaternion, camVars, pan>>
       ELSE /\ pan' = TrackPointer(pan, event)
            /\ LET d == MoveDelta(pan, event)
                   panOffset == PanOffset(d, camUp, camQuat, frustumSize)
                   newTarget == PanTarget(target, panOffset)
                   newPos == VAdd(camPos, panOffset)
               IN  IF pan.mode = "rotate"
                   THEN /\ quaternion' = QMul(DragRotation(d), quaternion)
                        /\ UNCHANGED camVars
                   ELSE IF pan.mode = "pan"
                   THEN /\ target' = newTarget
                        /\ camPos' = newPos
                        /\ camQuat' = LookAt(newPos, newTarget, camUp)
                        /\ UNCHANGED <<quaternion, camUp, frustumSize>>
                   ELSE UNCHANGED <<quaternion, camVars>>
    /\ UNCHANGED <<rotationAnimating, rotationCancelToken, rafQueue, frameRun,
                   now, callLog, axesVars, orbit, styleVars>>

\* v.length() of a vector lying in one part, in thousandths
Length(v) ==
    With(DirOf(v), LAMBDA n :
        With(Add3(Add3(v.p1, v.p2), v.p3), LAMBDA t :
            IF n = Zero3 THEN 0
            ELSE Dot3(t, n) \div Norm2(n)))

\* offset.setLength(distance) with the multiplication by distance left out
SetLengthUnit(v, distance) == UnitTimes(DirOf(v), Milli)

\* offset.setLength(distance): normalize().multiplyScalar(distance)
SetLength(v, distance) == UnitTimes(DirOf(v), distance)

\* An angle in degrees as quarter turns
QuarterTurnsOf(deg) == (deg \div 90) % 4

\* deltaAzimuth and deltaElevation in degrees: -100 * (dx / w) * mult; every
\* drag of the model turns by a multiple of 90 degrees
OrbitAngles(d) ==
    LET mult == SpeedMult(100, OrbitGain, OrbitMinMult, OrbitMaxMult,
                          d.dx, d.dy, d.dt)
    IN  [azimuth |-> (-100 * d.dx * mult) \div (RectW * 100),
         elevation |-> (-100 * d.dy * mult) \div (RectH * 100)]

\* The camera after onPointerMove of _setupCameraQuaternionOrbit
OrbitCamera(d, position, up, tgt) ==
    LET offset == VSub(position, tgt)
        distance == Length(offset)
        viewUp == Primitive(up)
        forward == DirOf(offset)
        angles == OrbitAngles(d)
        azimuthQuat == SetFromAxisAngle(Axis(viewUp), QuarterTurnsOf(angles.azimuth))
        right == Primitive(Cross3(viewUp, forward))
        elevationQuat == SetFromAxisAngle(Axis(right), QuarterTurnsOf(angles.elevation))
        combinedQuat == QMul(elevationQuat, azimuthQuat)
        turned == SetLength(VRot(combinedQuat.m, offset), distance)
        newUp == MatVec(elevationQuat.m, viewUp)
        newPos == VAdd(tgt, turned)
    IN  [position |-> newPos, up |-> newUp,
         quat |-> LookAt(newPos, tgt, newUp)]

\* onPointerMove of _setupCameraQuaternionOrbit
OrbitOnPointerMove ==
    /\ Running("orbit", "pointermove")
    /\ Return
    /\ IF ~MoveHandled(orbit, event)
       THEN UNCHANGED <<camVars, orbit>>
       ELSE /\ orbit' = TrackPointer(orbit, event)
            /\ LET cam == OrbitCamera(MoveDelta(orbit, event), camPos, camUp, target)
               IN  /\ camPos' = cam.position
                   /\ camUp' = cam.up
                   /\ camQuat' = cam.quat
                   /\ target' = target
                   /\ frustumSize' = frustumSize
    /\ UNCHANGED <<rotVars, axesVars, pan, styleVars>>

----------------------------------------------------------------------------
(* Model loading, visual style, feature edges and selection *)

\* files chosen in one behaviour
MaxLoads == 2
\* edge overlays built in one behaviour
MaxBuilds == 3

\* the styles of the View menu, a missing style and an unknown one
Styles == {"shaded", "shaded-edge", "shaded-hidden", "wireframe", "", "x-ray"}
\* feature angles, in degrees
Angles == {0, 30, 60}

\* this.core === null, this._edgesGroup not set
NoObject == 0

NoEdges ==
    [id |-> NoObject, visible |-> FALSE, hiddenLines |-> FALSE,
     visibleLines |-> FALSE, core |-> NoObject, angle |-> 0]

\* _rebuildEdges() on the fields s
RebuildEdges(s) ==
    LET removed == IF s.edgesGroup.id # NoObject
                   THEN [s EXCEPT !.children = @ \ {<<"edges", s.edgesGroup.id>>},
                                  !.edgesGroup = NoEdges]
                   ELSE s
    IN  IF removed.core = NoObject THEN removed
        ELSE [removed EXCEPT
                !.built = @ + 1,
                !.edgesGroup = [id |-> removed.built + 1, visible |-> FALSE,
                                hiddenLines |-> TRUE, visibleLines |-> TRUE,
                                core |-> removed.core,
                                angle |-> removed.featureAngle],
                !.children = @ \cup {<<"edges", removed.built + 1>>}]

\* The switch of setVisualStyle on a loaded model
StyleSwitch(s) ==
    LET e == s.edgesGroup
        has == e.id # NoObject
        wire(on) == [s.wireframe EXCEPT ![s.coreMaterial] = on]
    IN  CASE s.visualStyle = "wireframe" ->
               [s EXCEPT !.edgesGroup = IF has THEN [e EXCEPT !.visible = FALSE] ELSE e,
                         !.wireframe = wire(TRUE)]
          [] s.visualStyle = "shaded-edge" ->
               [s EXCEPT !.wireframe = wire(FALSE),
                         !.edgesGroup = IF has
                                        THEN [e EXCEPT !.visible = TRUE,
                                                       !.hiddenLines = FALSE,
                                                       !.visibleLines = TRUE]
                                        ELSE e]
          [] s.visualStyle = "shaded-hidden" ->
               [s EXCEPT !.wireframe = wire(FALSE),
                         !.edgesGroup = IF has
                                        THEN [e EXCEPT !.visible = TRUE,
                                                       !.hiddenLines = TRUE,
                                                       !.visibleLines = TRUE]
                                        ELSE e]
          [] OTHER ->
               [s EXCEPT !.edgesGroup = IF has THEN [e EXCEPT !.visible = FALSE] ELSE e,
                         !.wireframe = wire(FALSE)]

\* setVisualStyle(style) with the style stored after the test of this.core
ApplyVisualStyleLoaded(s, style) ==
    IF s.core = NoObject THEN s
    ELSE StyleSwitch([s EXCEPT !.visualStyle = IF style = "" THEN "shaded" ELSE style])

\* setVisualStyle(style) on the fields s
ApplyVisualStyle(s, style) ==
    LET named == [s EXCEPT !.visualStyle = IF style = "" THEN "shaded" ELSE style]
    IN  IF named.core = NoObject THEN named ELSE StyleSwitch(named)

\* getVisualStyle() on the fields s
GetVisualStyle(s) == IF s.visualStyle = "" THEN "shaded" ELSE s.visualStyle

\* setFeatureAngle(deg) without the call of setVisualStyle
ApplyFeatureAngleOnly(s, deg) ==
    LET angled == [s EXCEPT !.featureAngle = deg]
    IN  IF angled.core # NoObject THEN RebuildEdges(angled) ELSE angled

\* setFeatureAngle(deg) on the fields s
ApplyFeatureAngle(s, deg) ==
    LET angled == [s EXCEPT !.featureAngle = deg]
    IN  IF angled.core # NoObject
        THEN ApplyVisualStyle(RebuildEdges(angled), angled.visualStyle)
        ELSE angled

\* reader.onload up to setVisualStyle without artifactGroup.remove(this.core)
LoadMeshKeepsOld(s) ==
    LET meshed == [s EXCEPT !.loaded = @ + 1,
                            !.core = s.loaded + 1,
                            !.coreMaterial = "default",
                            !.children = @ \cup {<<"mesh", s.loaded + 1>>}]
    IN  ApplyVisualStyle(RebuildEdges(meshed), meshed.visualStyle)

\* reader.onload up to setVisualStyle, for a file that parses: the new mesh
\* replaces this.core, with the default material
LoadMesh(s) ==
    LET cleared == IF s.core # NoObject
                   THEN [s EXCEPT !.children = @ \ {<<"mesh", s.core>>},
                                  !.core = NoObject]
                   ELSE s
        meshed == [cleared EXCEPT !.loaded = @ + 1,
                                  !.core = cleared.loaded + 1,
                                  !.coreMaterial = "default",
                                  !.children = @ \cup {<<"mesh", cleared.loaded + 1>>}]
    IN  ApplyVisualStyle(RebuildEdges(meshed), meshed.visualStyle)

\* File names, as sequences of characters
FileNames == {<<"a", ".", "s">>, <<"b", ".">>, <<"c">>}
ModelText == <<"M", "o", "d", "e", "l">>
LowerModelText == <<"m", "o", "d", "e", "l">>
TreeViewText == <<"T", "r", "e", "e", " ", "V", "i", "e", "w">>

\* (file.name || 'model').replace(/\.[^/.]+$/, ''): the name without its
\* last extension
BaseName(fileName) ==
    LET name == IF fileName = <<>> THEN LowerModelText ELSE fileName
        dots == {i \in 1..(Len(name) - 1) :
                    /\ name[i] = "."
                    /\ \A j \in (i + 1)..Len(name) : name[j] \notin {"/", "."}}
    IN  IF dots = {} THEN name
        ELSE SubSeq(name, 1, (CHOOSE i \in dots : TRUE) - 1)

\* window.updateTreeTitle(name) on the text of #tree-title
UpdateTreeTitle(name) == IF name = <<>> THEN TreeViewText ELSE name

\* seq without its element i
RemoveAt(seq, i) == SubSeq(seq, 1, i - 1) \o SubSeq(seq, i + 1, Len(seq))

\* The largest dimension of a loaded mesh, which reader.onload scales to 5
ScaledDim == 5 * Milli

\* The 'change' listener of the file input, with a file chosen
ChooseFile(fileName) ==
    /\ started < MaxLoads
    /\ started' = started + 1
    /\ reads' = Append(reads, [name |-> fileName, opened |-> dialog])
    /\ dialog' = FALSE
    /\ log' = "Loading"
    /\ UNCHANGED <<rotVars, axesVars, camVars, ptrVars, sm, styleCalls, win,
                   timers, treeUpdates, helperLoaded>>

\* reader.onload of the load i for a file that parses; fitModelToView(this.core)
\* is worked out for an axis-aligned artifactGroup, where the bounding box of
\* the mesh keeps its centre and its largest dimension
ReaderOnloadParsed(i) ==
    /\ i \in DOMAIN reads
    /\ IsExact(quaternion)
    /\ reads' = RemoveAt(reads, i)
    /\ sm' = [LoadMesh(sm) EXCEPT !.name = BaseName(reads[i].name)]
    /\ win' = [currentModelName |-> BaseName(reads[i].name),
               treeTitle |-> UpdateTreeTitle(BaseName(reads[i].name))]
    /\ helperLoaded' = (helperLoaded \/ reads[i].opened)
    /\ frustumSize' = (ScaledDim * 12) \div 10
    /\ camPos' = UnitTimes(<<1, 1, 1>>, (ScaledDim * 25) \div 10 + Milli)
    /\ camUp' = <<0, 1, 0>>
    /\ target' = VZero
    /\ camQuat' = LookAt(UnitTimes(<<1, 1, 1>>, (ScaledDim * 25) \div 10 + Milli),
                         VZero, <<0, 1, 0>>)
    /\ log' = "Model loaded."
    /\ UNCHANGED <<rotVars, axesVars, ptrVars, started, styleCalls, dialog, timers,
                   treeUpdates>>

\* reader.onload of the load i with the exception raised only after the old
\* mesh was taken out
ReaderOnloadFailedLate(i) ==
    /\ i \in DOMAIN reads
    /\ reads' = RemoveAt(reads, i)
    /\ sm' = IF sm.core # NoObject
             THEN [sm EXCEPT !.children = @ \ {<<"mesh", sm.core>>},
                             !.core = NoObject]
             ELSE sm
    /\ log' = "Failed to load model"
    /\ UNCHANGED <<rotVars, axesVars, camVars, ptrVars, started, uiVars>>

\* reader.onload of the load i for a file stlLoader.parse throws on
ReaderOnloadFailed(i) ==
    /\ i \in DOMAIN reads
    /\ reads' = RemoveAt(reads, i)
    /\ log' = "Failed to load model"
    /\ UNCHANGED <<rotVars, axesVars, camVars, ptrVars, sm, started, uiVars>>

\* helpers.openModel calls in one behaviour
MaxOpens == 2

\* core.scene of the mesh in this.core: a THREE.Mesh made by reader.onload,
\* which gives it a geometry, a material and a name
CoreScene(s) == NoObject

\* helpers.openModel(): window.openModel() clicks the file input, and the
\* tree update is left to a timer
OpenModel ==
    /\ timers < MaxOpens
    /\ dialog' = TRUE
    /\ timers' = timers + 1
    /\ UNCHANGED <<rotVars, axesVars, camVars, ptrVars, sm, reads, started, log,
                   styleCalls, win, treeUpdates, helperLoaded>>

\* The file dialog closed without a file
CancelDialog ==
    /\ dialog
    /\ dialog' = FALSE
    /\ UNCHANGED <<rotVars, axesVars, camVars, ptrVars, sm, reads, started, log,
                   styleCalls, win, timers, treeUpdates, helperLoaded>>

\* The setTimeout callback of helpers.openModel
OpenModelTimeout ==
    /\ timers > 0
    /\ timers' = timers - 1
    /\ treeUpdates' = IF sm.core # NoObject /\ CoreScene(sm) # NoObject
                      THEN Append(treeUpdates, CoreScene(sm))
                      ELSE treeUpdates
    /\ UNCHANGED <<rotVars, axesVars, camVars, ptrVars, sm, reads, started, log,
                   styleCalls, win, dialog, helperLoaded>>

\* SceneManager.setVisualStyle(style)
SetVisualStyle(style) ==
    /\ sm' = ApplyVisualStyle(sm, style)
    /\ styleCalls' = <<style>>
    /\ UNCHANGED <<rotVars, axesVars, camVars, ptrVars, reads, started, log, win,
                   openVars>>

\* SceneManager.setFeatureAngle(deg)
SetFeatureAngle(deg) ==
    /\ sm.built < MaxBuilds
    /\ sm' = ApplyFeatureAngle(sm, deg)
    /\ UNCHANGED <<rotVars, axesVars, camVars, ptrVars, reads, started, log, uiVars>>

\* window.highlightModel(highlight)
HighlightModel(highlight) ==
    /\ IF sm.core = NoObject
       THEN UNCHANGED <<sm, log>>
       ELSE /\ sm' = [sm EXCEPT !.coreMaterial = IF highlight THEN "selected"
                                                 ELSE "default"]
            /\ log' = IF highlight THEN "Model highlighted" ELSE "Model unhighlighted"
    /\ UNCHANGED <<rotVars, axesVars, camVars, ptrVars, reads, started, uiVars>>

\* The canvas 'pointerup' listener of _setupSelectionAndLoop: a click that
\* hits the model or misses it
CanvasPointerUp(button, hit) ==
    /\ sm' = IF sm.core = NoObject \/ button # 0 THEN sm
             ELSE [sm EXCEPT !.coreMaterial = IF hit THEN "selected" ELSE "default"]
    /\ UNCHANGED <<rotVars, axesVars, camVars, ptrVars, reads, started, log, uiVars>>

----------------------------------------------------------------------------
(* The state after SceneManager.init(), which ends by running animate() *)

IsoDistance == 10

Init ==
    /\ quaternion = QIdentity
    /\ rotationAnimating = FALSE
    /\ rotationCancelToken = FALSE
    /\ rafQueue = <<AnimateCallback>>
    /\ frameRun = <<>>
    /\ now = 0
    /\ callLog = <<>>
    /\ axesQuat = QIdentity
    /\ axesCam = [position |-> UnitTimes(<<1, 1, 1>>, 3 * Milli), up |-> <<0, 1, 0>>]
    /\ camPos = UnitTimes(<<1, 1, 1>>, IsoDistance * Milli)
    /\ camUp = <<0, 1, 0>>
    /\ camQuat = LookAt(UnitTimes(<<1, 1, 1>>, IsoDistance * Milli), VZero, <<0, 1, 0>>)
    /\ target = VZero
    /\ pan = [rotating |-> FALSE, lastX |-> 0, lastY |-> 0, mode |-> "none",
              activePointerId |-> Null, lastPointerTime |-> Null]
    /\ orbit = [rotating |-> FALSE, lastX |-> 0, lastY |-> 0,
                activePointerId |-> Null, lastPointerTime |-> Null]
    /\ event = NoEvent
    /\ pending = <<>>
    /\ evTime = 0
    /\ evCount = 0
    /\ frustumSize = 10 * Milli
    /\ sm = [visualStyle |-> "shaded-edge", featureAngle |-> 30, core |-> NoObject,
             coreMaterial |-> "default",
             wireframe |-> [default |-> FALSE, selected |-> FALSE],
             edgesGroup |-> NoEdges, children |-> {}, loaded |-> 0, built |-> 0,
             name |-> <<>>]
    /\ reads = <<>>
    /\ started = 0
    /\ log = ""
    /\ styleCalls = <<>>
    /\ win = [currentModelName |-> ModelText, treeTitle |-> TreeViewText]
    /\ dialog = FALSE
    /\ timers = 0
    /\ treeUpdates = <<>>
    /\ helperLoaded = FALSE

NextRot ==
    \/ \E degrees \in Degrees, axis \in AxisNames, duration \in Durations,
          space \in Spaces :
            RotateModelByDegrees(degrees, axis, duration, space)
    \/ \E delta \in 1..MaxFrameDelta : BeginFrame(delta)
    \/ RunStep
    \/ RunAnimate

SpecRot == Init /\ [][NextRot]_vars

\* The render loop with immediate rotations and preset views
NextAxes ==
    \/ \E degrees \in Degrees, axis \in AxisNames, space \in Spaces :
            RotateModelByDegrees(degrees, axis, 0, space)
    \/ \E delta \in 1..MaxFrameDelta : BeginFrame(delta)
    \/ RunAnimate
    \/ \E id \in PresetIds : SetPresetView(id)

SpecAxes == Init /\ [][NextAxes]_vars

\* One animated rotation, after immediate ones, with frames that keep coming
NoAnimatedCall == \A i \in DOMAIN callLog : callLog[i].duration = 0

NextSingle ==
    \/ \E degrees \in Degrees, axis \in AxisNames, duration \in Durations,
          space \in Spaces :
            NoAnimatedCall /\ RotateModelByDegrees(degrees, axis, duration, space)
    \/ \E delta \in 1..MaxFrameDelta : BeginFrame(delta)
    \/ RunStep
    \/ RunAnimate

SpecSingle ==
    /\ Init
    /\ [][NextSingle]_vars
    /\ WF_vars(\E delta \in 1..MaxFrameDelta : BeginFrame(delta))
    /\ WF_vars(RunStep)
    /\ WF_vars(RunAnimate)

\* The pointer handlers, with preset views between the events
NextCam ==
    \/ \E pointerId \in PointerIds, button \in Buttons, shiftKey \in BOOLEAN,
          ctrlKey \in BOOLEAN, altKey \in BOOLEAN, clientX \in DownXs,
          clientY \in DownYs, gap \in Gaps :
            Dispatch(PointerDown(pointerId, button, shiftKey, ctrlKey, altKey,
                                 clientX, clientY), gap)
    \/ \E pointerId \in PointerIds, clientX \in ClientXs, clientY \in ClientYs,
          gap \in Gaps :
            Dispatch(PointerMove(pointerId, clientX, clientY), gap)
    \/ \E pointerId \in PointerIds, button \in Buttons, gap \in Gaps :
            Dispatch(PointerUp(pointerId, button), gap)
    \/ \E pointerId \in PointerIds, gap \in Gaps :
            Dispatch(PointerCancel(pointerId), gap)
    \/ PanOnPointerDown
    \/ OrbitOnPointerDown
    \/ PanOnPointerMove
    \/ OrbitOnPointerMove
    \/ PanOnPointerUp
    \/ OrbitOnPointerUp
    \/ PanOnPointerCancel
    \/ OrbitOnPointerCancel
    \/ \E id \in PresetIds : SetPresetView(id)

SpecCam == Init /\ [][NextCam]_vars

\* Loading, styling and selecting the model
NextStyle ==
    \/ \E fileName \in FileNames : ChooseFile(fileName)
    \/ \E i \in 1..MaxLoads : ReaderOnloadParsed(i)
    \/ \E i \in 1..MaxLoads : ReaderOnloadFailed(i)
    \/ \E style \in Styles : SetVisualStyle(style)
    \/ \E deg \in Angles : SetFeatureAngle(deg)
    \/ \E highlight \in BOOLEAN : HighlightModel(highlight)
    \/ \E button \in Buttons, hit \in BOOLEAN : CanvasPointerUp(button, hit)

SpecStyle == Init /\ [][NextStyle]_vars

\* File > Open: the helper, its dialog, its timer and the loads; a timer
\* that is due runs, and a load in progress comes to its end
NextOpen ==
    \/ OpenModel
    \/ CancelDialog
    \/ OpenModelTimeout
    \/ \E fileName \in FileNames : ChooseFile(fileName)
    \/ \E i \in 1..MaxLoads : ReaderOnloadParsed(i)
    \/ \E i \in 1..MaxLoads : ReaderOnloadFailed(i)

SpecOpen ==
    /\ Init
    /\ [][NextOpen]_vars
    /\ WF_vars(OpenModelTimeout)
    /\ WF_vars(\E i \in 1..MaxLoads : ReaderOnloadParsed(i) \/ ReaderOnloadFailed(i))

----------------------------------------------------------------------------
(* Claims about the animated rotation *)

StepScheduled ==
    \/ \E i \in DOMAIN rafQueue : rafQueue[i].kind = "step"
    \/ \E i \in DOMAIN frameRun : frameRun[i].kind = "step"

\* a later animated call was made after the callback's own
Superseded(cb) ==
    \E i \in DOMAIN callLog : callLog[i].id > cb.id /\ callLog[i].duration > 0

\* C1: once a later animated rotateModelByDegrees call has been made, no
\* animation-frame step of an earlier animation writes
\* artifactGroup.quaternion any more.
C1_EarlierRotationCancelled ==
    [][(/\ frameRun # <<>>
        /\ Head(frameRun).kind = "step"
        /\ Superseded(Head(frameRun)))
       => quaternion' = quaternion]_vars

AnimationStarted == \E i \in DOMAIN callLog : callLog[i].duration > 0

TheAnimatedCall ==
    callLog[CHOOSE i \in DOMAIN callLog : callLog[i].duration > 0]

AnimationStopped ==
    /\ AnimationStarted
    /\ ~rotationAnimating
    /\ ~StepScheduled
    /\ quaternion = TheAnimatedCall.endQ

\* C2: a single animated rotation, with frames delivered, eventually stops
\* for good; whenever it is no longer animating, the orientation is exactly
\* the end quaternion computed at the call and no step is scheduled.
C2_SingleAnimationStops ==
    /\ [](AnimationStarted => <>[]AnimationStopped)
    /\ [](AnimationStarted /\ ~rotationAnimating => AnimationStopped)

\* C2's case: an animation that changed the orientation has stopped
C2_Witness ==
    /\ AnimationStopped
    /\ TheAnimatedCall.endQ # TheAnimatedCall.startQ
    /\ TheAnimatedCall.startQ # QIdentity

\* R(a, degrees) composed with q0 as the claim has it
ExpectedEnd(c) ==
    LET R == QExact(AxisAngleMat(AxisLocal(c.axis).v, QuarterTurns(c.degrees)))
    IN  IF c.space = "local" THEN QMul(c.startQ, R) ELSE QMul(R, c.startQ)

\* C3: from an axis-aligned start orientation q0, a rotation by a multiple of
\* 90 degrees about a named axis a ends at R(a)*q0 in world space and at
\* q0*R(a) in local space, on the immediate and on the animated path.
C3_EndOrientation ==
    \A i \in DOMAIN callLog :
        IsExact(callLog[i].startQ) => callLog[i].endQ = ExpectedEnd(callLog[i])

\* C4: at a rendered frame, with the camera in an axis-aligned view and the
\* model rotated, the axes group's orientation is the model's orientation
\* seen from the camera: q_axes = qCamera^-1 * qModel.
C4_AxesShowModel ==
    [][(/\ frameRun # <<>>
        /\ Head(frameRun).kind = "animate"
        /\ IsExact(QCamera)
        /\ IsExact(quaternion)
        /\ quaternion # QIdentity)
       => axesQuat' = QMul(QInvert(QCamera), quaternion)]_vars

----------------------------------------------------------------------------
(* Claims about the pan and orbit drags *)

\* C5: during a pan drag, a pointermove adds the same offset to
\* camera.position and to controls.target, so camera.position -
\* controls.target stays as it was, and camera.up and
\* artifactGroup.quaternion are not changed.
C5_PanKeepsOffset ==
    [][(Running("pan", "pointermove") /\ pan.rotating)
       => /\ VSub(camPos', camPos) = VSub(target', target)
          /\ VSub(camPos', target') = VSub(camPos, target)
          /\ camUp' = camUp
          /\ quaternion' = quaternion]_vars

\* C5's case: a pan drag has moved the target
C5_Witness == pan.rotating /\ target # VZero

\* C6: during an orbit drag, a pointermove leaves controls.target as it was
\* and keeps the distance between camera.position and controls.target; the
\* model's orientation is not changed.
C6_OrbitKeepsDistance ==
    [][(Running("orbit", "pointermove") /\ orbit.rotating)
       => /\ target' = target
          /\ DirOf(VSub(camPos', target')) # Zero3
          /\ Length(VSub(camPos', target')) = Length(VSub(camPos, target))
          /\ quaternion' = quaternion]_vars

\* C6's case: an orbit drag has tumbled the camera over
C6_Witness == orbit.rotating /\ camUp # <<0, 1, 0>>

\* the handler state h is that of a drag started by the event ev
StartedBy(h, ev) ==
    /\ h.rotating
    /\ h.activePointerId = ev.pointerId
    /\ h.lastPointerTime = ev.timeStamp

\* C7: a pointerdown starts a pan drag exactly when it is a middle-button
\* press with Shift, and an orbit drag exactly when it is a middle-button
\* press with none of Shift, Ctrl, Alt; it never starts both, and a left or
\* right press starts neither.
C7_DragStart ==
    [][/\ Running("pan", "pointerdown")
          => /\ StartedBy(pan', event) <=> (event.button = 1 /\ event.shiftKey)
             /\ (~StartedBy(pan', event)) => (pan' = pan)
       /\ Running("orbit", "pointerdown")
          => /\ StartedBy(orbit', event)
                <=> (/\ event.button = 1
                     /\ ~event.shiftKey /\ ~event.ctrlKey /\ ~event.altKey)
             /\ (~StartedBy(orbit', event)) => (orbit' = orbit)
             /\ ~(StartedBy(pan, event) /\ StartedBy(orbit', event))
             /\ (event.button # 1)
                => (~StartedBy(pan, event) /\ ~StartedBy(orbit', event))]_vars

\* C7's case: both kinds of drag have been started, by two pointerdowns
C7_Witness ==
    /\ pan.rotating
    /\ orbit.rotating
    /\ pan.lastPointerTime # orbit.lastPointerTime

\* the event ends the drag of handler h: a middle-button pointerup or a
\* pointercancel of the pointer that started it
EndsDrag(h, ev) ==
    /\ h.rotating
    /\ ev.pointerId = h.activePointerId
    /\ \/ ev.type = "pointerup" /\ ev.button = 1
       \/ ev.type = "pointercancel"

\* C8: in each handler rotating holds exactly when activePointerId is not
\* null; the middle-button pointerup or the pointercancel of the pointer
\* that started a drag leaves rotating false and activePointerId null; a
\* pointermove reaching a handler that is not rotating changes neither
\* camera.position, camera.up nor controls.target; and only a qualifying
\* pointerdown makes a handler rotating again.
C8_DragEnd ==
    /\ [](pan.rotating <=> pan.activePointerId # Null)
    /\ [](orbit.rotating <=> orbit.activePointerId # Null)
    /\ [][/\ (pending # <<>> /\ Head(pending) = "pan" /\ EndsDrag(pan, event))
             => (~pan'.rotating /\ pan'.activePointerId = Null)
          /\ (pending # <<>> /\ Head(pending) = "orbit" /\ EndsDrag(orbit, event))
             => (~orbit'.rotating /\ orbit'.activePointerId = Null)
          /\ (Running("pan", "pointermove") /\ ~pan.rotating)
             => UNCHANGED <<camPos, camUp, target>>
          /\ (Running("orbit", "pointermove") /\ ~orbit.rotating)
             => UNCHANGED <<camPos, camUp, target>>
          /\ (~pan.rotating /\ pan'.rotating)
             => (Running("pan", "pointerdown") /\ PanDownStarts(event))
          /\ (~orbit.rotating /\ orbit'.rotating)
             => (Running("orbit", "pointerdown") /\ OrbitDownStarts(event))]_vars

\* C8's case: a pan drag was started and ended, and a later pointermove has
\* reached the pan handler
C8_Witness ==
    /\ event.type = "pointermove"
    /\ pending = <<"orbit">>
    /\ ~pan.rotating
    /\ pan.lastPointerTime # Null

----------------------------------------------------------------------------
(* Claims about the visual style *)

EdgeStyles == {"shaded-edge", "shaded-hidden"}

\* C9: whenever a model is loaded, its edge overlay is in artifactGroup and
\* is visible exactly under the styles 'shaded-edge' and 'shaded-hidden';
\* 'shaded-edge' shows the visible-edge lines only and 'shaded-hidden' shows
\* the visible and the hidden lines.
C9_EdgesFollowStyle ==
    sm.core # NoObject
    => /\ sm.edgesGroup.id # NoObject
       /\ sm.edgesGroup.core = sm.core
       /\ <<"edges", sm.edgesGroup.id>> \in sm.children
       /\ sm.edgesGroup.visible <=> sm.visualStyle \in EdgeStyles
       /\ sm.visualStyle = "shaded-edge"
          => (sm.edgesGroup.visibleLines /\ ~sm.edgesGroup.hiddenLines)
       /\ sm.visualStyle = "shaded-hidden"
          => (sm.edgesGroup.visibleLines /\ sm.edgesGroup.hiddenLines)

\* C9's case: a second model, loaded under a style chosen while the first
\* was shown, with edges rebuilt for a new feature angle
C9_Witness ==
    /\ sm.core = 2
    /\ sm.visualStyle = "shaded-hidden"
    /\ sm.edgesGroup.visible
    /\ sm.edgesGroup.angle = 60
    /\ sm.built = 3

\* C10: whenever a model is loaded, the material assigned to its mesh has
\* wireframe on exactly when the visual style is 'wireframe'.
C10_WireframeFollowsStyle ==
    sm.core # NoObject
    => (sm.wireframe[sm.coreMaterial] <=> sm.visualStyle = "wireframe")

\* C11: getVisualStyle returns 'shaded-edge' until setVisualStyle is called,
\* and from then on the style of the latest call, or 'shaded' when that
\* style was empty, with or without a model loaded; a second setVisualStyle
\* with the same style leaves the state the first one left.
C11_GetVisualStyle ==
    /\ GetVisualStyle(sm) = IF styleCalls = <<>> THEN "shaded-edge"
                            ELSE IF styleCalls[1] = "" THEN "shaded"
                            ELSE styleCalls[1]
    /\ \A style \in Styles :
          ApplyVisualStyle(ApplyVisualStyle(sm, style), style)
              = ApplyVisualStyle(sm, style)

\* C11's case: the style set to a missing one before any model was loaded,
\* and still read back after the load and a selection
C11_Witness ==
    /\ styleCalls = <<"">>
    /\ sm.core # NoObject
    /\ sm.coreMaterial = "selected"
    /\ GetVisualStyle(sm) = "shaded"

\* C12: once a model has been loaded, whatever loads and setFeatureAngle
\* calls followed, artifactGroup holds exactly the mesh of the latest load
\* and one edge overlay, built from that mesh; nothing of earlier loads or
\* earlier overlays is left among its children.
C12_OneModelOneOverlay ==
    sm.loaded > 0
    => /\ sm.core = sm.loaded
       /\ sm.edgesGroup.id = sm.built
       /\ sm.edgesGroup.core = sm.core
       /\ sm.children = {<<"mesh", sm.core>>, <<"edges", sm.edgesGroup.id>>}

\* C12's case: a second load, followed by a setFeatureAngle that rebuilt
\* the overlay of the second mesh
C12_Witness ==
    /\ sm.loaded = 2
    /\ sm.edgesGroup.core = 2
    /\ sm.edgesGroup.id = 3
    /\ sm.featureAngle = 0

\* C13: a load whose file fails to parse reports 'Failed to load model' and
\* leaves the scene as it was: the mesh and its name, the children of
\* artifactGroup, the edge overlay, the visual style, the camera,
\* window.currentModelName and the tree title all keep their values.
C13_FailedLoadKeepsScene ==
    [][\A i \in 1..MaxLoads :
          ReaderOnloadFailed(i)
          => /\ log' = "Failed to load model"
             /\ sm' = sm
             /\ win' = win
             /\ camVars' = camVars]_vars

\* C13's case: a file failed to parse while another model was shown under
\* its own name
C13_Witness ==
    /\ log = "Failed to load model"
    /\ sm.core # NoObject
    /\ sm.name = <<"a">>
    /\ win.treeTitle = <<"a">>
    /\ reads = <<>>

----------------------------------------------------------------------------
(* Claims about File > Open *)

\* C14: once a file chosen in the dialog of helpers.openModel has been
\* loaded, window.updateTree is eventually called.
C14_TreeUpdatedAfterOpen == helperLoaded ~> (treeUpdates # <<>>)

====
